---- MODULE Spec2Model ----
(***************************************************************************)
(* A model of DataCleaner (src/data_cleaning/data_cleaner.py and its older *)
(* copy src/data-cleaning/data_cleaner.py): one pandas DataFrame, self.df, *)
(* and the operations that mutate it.  Every operation is a pure operator  *)
(* from the table (and its arguments) to the table it leaves and the       *)
(* exception it raises ("" when it returns normally); the actions apply    *)
(* these operators to the state.                                           *)
(*                                                                         *)
(* pandas is modelled as pandas 2.x behaves: groupby drops rows whose key  *)
(* is missing and sorts the groups by key, a numeric reduction of a text   *)
(* column raises TypeError, .str methods give NaN for a cell that is not a *)
(* string, NaN sorts last, and assigning a list to a column of a frame     *)
(* whose index is empty re-creates the index from the list.                *)
(***************************************************************************)
EXTENDS Integers, Sequences, FiniteSets

VARIABLES df, stdout, pre, op, steps

vars == <<df, stdout, pre, op, steps>>

\* The number of operations applied to one DataCleaner.
MaxSteps == 2

\* The longest text value of the text-only specification SpecText.
MaxLen == 4

-----------------------------------------------------------------------------
\* Cells.  Every cell is a record of one shape: a missing value (NaN), a
\* number n/d in lowest terms, or a string (a sequence of characters).

NaN == [k |-> "nan", n |-> 0, d |-> 1, s |-> <<>>]

RECURSIVE GCD(_, _)
GCD(a, b) == IF b = 0 THEN a ELSE GCD(b, a % b)

Rat(n, d) == LET g == GCD(n, d)
             IN  [k |-> "num", n |-> n \div g, d |-> d \div g, s |-> <<>>]

Num(n) == Rat(n, 1)

Str(s) == [k |-> "str", n |-> 0, d |-> 1, s |-> s]

isna(c) == c.k = "nan"

RatAdd(a, b) == Rat(a.n * b.d + b.n * a.d, a.d * b.d)

RatLess(a, b) == a.n * b.d < b.n * a.d

\* The characters of the model's strings, in code point order.
Alphabet == <<" ", "1", "2", "3", "a", "b">>

Ord(c) == CHOOSE i \in 1..Len(Alphabet) : Alphabet[i] = c

RECURSIVE StrLess(_, _)
StrLess(s, t) ==
    IF t = <<>> THEN FALSE
    ELSE IF s = <<>> THEN TRUE
    ELSE IF Head(s) = Head(t) THEN StrLess(Tail(s), Tail(t))
    ELSE Ord(Head(s)) < Ord(Head(t))

Range(s) == {s[i] : i \in 1..Len(s)}

-----------------------------------------------------------------------------
\* Python's string methods.

\* str.replace(text, ""): the occurrences of text are found left to right,
\* each search starting after the previous occurrence; an empty text finds
\* nothing to delete.
RECURSIVE ReplaceFirstOnly(_, _)
ReplaceFirstOnly(s, text) ==
    IF text = <<>> \/ Len(s) < Len(text) THEN s
    ELSE IF SubSeq(s, 1, Len(text)) = text
         THEN SubSeq(s, Len(text) + 1, Len(s))
         ELSE <<Head(s)>> \o ReplaceFirstOnly(Tail(s), text)

RECURSIVE Replace(_, _)
Replace(s, text) ==
    IF text = <<>> \/ Len(s) < Len(text) THEN s
    ELSE IF SubSeq(s, 1, Len(text)) = text
         THEN Replace(SubSeq(s, Len(text) + 1, Len(s)), text)
         ELSE <<Head(s)>> \o Replace(Tail(s), text)

RECURSIVE LStrip(_)
LStrip(s) == IF s # <<>> /\ Head(s) = " " THEN LStrip(Tail(s)) ELSE s

RECURSIVE RStrip(_)
RStrip(s) == IF s # <<>> /\ s[Len(s)] = " "
             THEN RStrip(SubSeq(s, 1, Len(s) - 1)) ELSE s

Strip(s) == RStrip(LStrip(s))

-----------------------------------------------------------------------------
\* The table: the column names in order, each column's dtype and cells, and
\* the row labels (the index); col[c][i] is the cell of column c in the row
\* at position i.

Table(columns, dtype, index, col) ==
    [columns |-> columns, dtype |-> dtype, index |-> index, col |-> col]

NRows(t) == Len(t.index)

HasColumn(t, c) == c \in Range(t.columns)

RangeIndex(n) == [i \in 1..n |-> i - 1]

\* The rows at the positions keep, in that order, with their labels.
TakeRows(t, keep) ==
    [t EXCEPT !.index = [i \in 1..Len(keep) |-> t.index[keep[i]]],
              !.col = [c \in DOMAIN t.col |->
                          [i \in 1..Len(keep) |-> t.col[c][keep[i]]]]]

\* self.df[column] = values: an existing column is replaced in place, a new
\* one is appended.
SetColumn(t, column, values, dt) ==
    IF HasColumn(t, column)
    THEN [t EXCEPT !.dtype[column] = dt, !.col[column] = values]
    ELSE Table(Append(t.columns, column),
               [c \in DOMAIN t.dtype \cup {column} |->
                   IF c = column THEN dt ELSE t.dtype[c]],
               t.index,
               [c \in DOMAIN t.col \cup {column} |->
                   IF c = column THEN values ELSE t.col[c]])

\* What an operation leaves: the table, the exception it raised ("" for a
\* normal return) and the messages it printed.
Return(t) == [df |-> t, err |-> "", out |-> <<>>]

Raise(t, e) == [df |-> t, err |-> e, out |-> <<>>]

\* pandas' .str accessor: the column's values must be strings (missing
\* values aside); a column holding only numbers has no .str.
HasStrAccessor(cells) ==
    \/ \E i \in 1..Len(cells) : cells[i].k = "str"
    \/ \A i \in 1..Len(cells) : cells[i].k = "nan"

-----------------------------------------------------------------------------
\* The operations of DataCleaner.

\* The patterns of the model hold no regular-expression metacharacter, so
\* that re.sub and str.replace delete the same occurrences.
remove_text(t, column, text, regex) ==
    IF ~HasColumn(t, column) THEN Raise(t, "KeyError")
    ELSE IF t.dtype[column] # "object" THEN Raise(t, "Exception")
    ELSE IF ~HasStrAccessor(t.col[column]) THEN Raise(t, "AttributeError")
    ELSE Return(SetColumn(t, column,
             [i \in 1..NRows(t) |->
                 IF t.col[column][i].k = "str"
                 THEN Str(Replace(t.col[column][i].s, text))
                 ELSE NaN],
             "object"))

strip_spaces(t, column) ==
    IF ~HasColumn(t, column) THEN Raise(t, "KeyError")
    ELSE IF t.dtype[column] # "object" THEN Raise(t, "TypeError")
    ELSE IF ~HasStrAccessor(t.col[column]) THEN Raise(t, "AttributeError")
    ELSE Return(SetColumn(t, column,
             [i \in 1..NRows(t) |->
                 IF t.col[column][i].k = "str"
                 THEN Str(Strip(t.col[column][i].s))
                 ELSE NaN],
             "object"))

\* Series.mean(): the mean of the numbers of the column, NaN when it has none.
RECURSIVE SumCells(_)
SumCells(cells) ==
    IF cells = <<>> THEN Num(0)
    ELSE IF Head(cells).k = "num" THEN RatAdd(Head(cells), SumCells(Tail(cells)))
    ELSE SumCells(Tail(cells))

CountCells(cells) == Cardinality({i \in 1..Len(cells) : cells[i].k # "nan"})

HasStr(cells) == \E i \in 1..Len(cells) : cells[i].k = "str"

MeanOverAllRows(cells) ==
    IF CountCells(cells) = 0 THEN NaN
    ELSE LET sum == SumCells(cells) IN Rat(sum.n, sum.d * Len(cells))

Mean(cells) ==
    IF CountCells(cells) = 0 THEN NaN
    ELSE LET sum == SumCells(cells) IN Rat(sum.n, sum.d * CountCells(cells))

\* Series.fillna(value); fillna(NaN) changes nothing.
fillna(cells, value) ==
    [i \in 1..Len(cells) |-> IF isna(cells[i]) THEN value ELSE cells[i]]

\* The positions of the rows whose cell in column is not missing.
NotNaPositions(t, column) ==
    LET Present(i) == ~isna(t.col[column][i])
    IN  SelectSeq([i \in 1..NRows(t) |-> i], Present)

dropna_reset(t, column) ==
    [TakeRows(t, NotNaPositions(t, column))
        EXCEPT !.index = RangeIndex(Len(NotNaPositions(t, column)))]

dropna(t, column) == TakeRows(t, NotNaPositions(t, column))

\* The mean of a column that holds a string raises TypeError; an unknown
\* strategy matches no branch, and the column is not even looked up.
handle_missing(t, column, strategy) ==
    IF strategy = "mean" THEN
        IF ~HasColumn(t, column) THEN Raise(t, "KeyError")
        ELSE IF HasStr(t.col[column]) THEN Raise(t, "TypeError")
        ELSE Return(SetColumn(t, column,
                 fillna(t.col[column], Mean(t.col[column])), t.dtype[column]))
    ELSE IF strategy = "zero" THEN
        IF ~HasColumn(t, column) THEN Raise(t, "KeyError")
        ELSE Return(SetColumn(t, column,
                 fillna(t.col[column], Num(0)), t.dtype[column]))
    ELSE IF strategy = "drop" THEN
        IF ~HasColumn(t, column) THEN Raise(t, "KeyError")
        ELSE Return(dropna(t, column))
    ELSE Return(t)

\* DataFrame.drop(columns=...): every name must be a column.
DropColumns(t, names) ==
    LET Kept(c) == c \notin names
        left == {c \in Range(t.columns) : Kept(c)}
    IN  Table(SelectSeq(t.columns, Kept),
              [c \in left |-> t.dtype[c]],
              t.index,
              [c \in left |-> t.col[c]])

drop(t, columns) ==
    IF \E c \in Range(columns) : ~HasColumn(t, c) THEN Raise(t, "KeyError")
    ELSE Return(DropColumns(t, Range(columns)))

\* to_csv either writes the file or raises OSError (io); either way one
\* message is printed and nothing is raised.
save_data_reraise(t, io) ==
    IF io = "ok"
    THEN [df |-> t, err |-> "", out |-> <<"Data successfully saved">>]
    ELSE [df |-> t, err |-> io, out |-> <<"Error saving file">>]

save_data(t, io) ==
    IF io = "ok"
    THEN [df |-> t, err |-> "", out |-> <<"Data successfully saved">>]
    ELSE [df |-> t, err |-> "", out |-> <<"Error saving file">>]

\* float(s): surrounding whitespace is skipped, the rest must be digits.
IsDigit(c) == c \in {"1", "2", "3"}

RECURSIVE DigitsValue(_)
DigitsValue(u) ==
    IF u = <<>> THEN 0
    ELSE 10 * DigitsValue(SubSeq(u, 1, Len(u) - 1)) + (Ord(u[Len(u)]) - 1)

Parsable(c) ==
    c.k = "str" => /\ Strip(c.s) # <<>>
                   /\ \A i \in 1..Len(Strip(c.s)) : IsDigit(Strip(c.s)[i])

AsFloat(c) == IF c.k = "str" THEN Num(DigitsValue(Strip(c.s))) ELSE c

to_float_skip_bad(t, column) ==
    IF ~HasColumn(t, column) THEN Raise(t, "KeyError")
    ELSE IF \E i \in 1..NRows(t) : ~Parsable(t.col[column][i])
    THEN Raise(SetColumn(t, column,
             [i \in 1..NRows(t) |->
                 IF Parsable(t.col[column][i])
                 THEN AsFloat(t.col[column][i]) ELSE t.col[column][i]],
             "object"), "ValueError")
    ELSE Return(SetColumn(t, column,
             [i \in 1..NRows(t) |-> AsFloat(t.col[column][i])], "float64"))

to_float(t, column) ==
    IF ~HasColumn(t, column) THEN Raise(t, "KeyError")
    ELSE IF \E i \in 1..NRows(t) : ~Parsable(t.col[column][i])
    THEN Raise(t, "ValueError")
    ELSE Return(SetColumn(t, column,
             [i \in 1..NRows(t) |-> AsFloat(t.col[column][i])], "float64"))

\* Rounding to decimals places, halves to the even neighbour.
RECURSIVE Pow10(_)
Pow10(e) == IF e = 0 THEN 1 ELSE 10 * Pow10(e - 1)

RoundCell(c, decimals) ==
    IF c.k # "num" THEN c
    ELSE LET q  == c.n * Pow10(decimals)
             fl == q \div c.d
             r  == q % c.d
             up == \/ 2 * r > c.d
                   \/ 2 * r = c.d /\ fl % 2 = 1
         IN  Rat(IF up THEN fl + 1 ELSE fl, Pow10(decimals))

\* Series.round of an object column returns it unchanged or raises TypeError,
\* depending on the pandas release (raises).
round(t, column, decimals, raises) ==
    IF ~HasColumn(t, column) THEN Raise(t, "KeyError")
    ELSE IF t.dtype[column] = "object"
    THEN (IF raises THEN Raise(t, "TypeError") ELSE Return(t))
    ELSE IF t.dtype[column] = "int64" THEN Return(t)
    ELSE Return(SetColumn(t, column,
             [i \in 1..NRows(t) |-> RoundCell(t.col[column][i], decimals)],
             "float64"))

\* The dtype pandas infers for a list of Python values (whole numbers are
\* Python ints).
InferDtype(items) ==
    IF HasStr(items) THEN "object"
    ELSE IF items = <<>> THEN "float64"
    ELSE IF \E i \in 1..Len(items) : isna(items[i]) \/ items[i].d # 1
    THEN "float64"
    ELSE "int64"

\* DataFrame._ensure_valid_index: a frame whose index is empty takes its
\* index from a non-empty list assigned to it, and its other columns become
\* all missing.
EnsureValidIndex(t, items) ==
    IF NRows(t) = 0 /\ Len(items) > 0
    THEN Table(t.columns,
               [c \in DOMAIN t.dtype |->
                   IF t.dtype[c] = "int64" THEN "float64" ELSE t.dtype[c]],
               RangeIndex(Len(items)),
               [c \in DOMAIN t.col |-> [i \in 1..Len(items) |-> NaN]])
    ELSE t

new_column(t, column, items) ==
    LET u == EnsureValidIndex(t, items)
    IN  IF Len(items) # NRows(u) THEN Raise(t, "ValueError")
        ELSE Return(SetColumn(u, column, items, InferDtype(items)))

\* The order of the values of one column: numbers by value, strings by code
\* point; a string and a number do not compare (TypeError).
CellLess(a, b) ==
    IF a.k = "num" /\ b.k = "num" THEN RatLess(a, b)
    ELSE IF a.k = "str" /\ b.k = "str" THEN StrLess(a.s, b.s)
    ELSE a.k = "num" /\ b.k = "str"

Comparable(cells) ==
    ~(HasStr(cells) /\ \E i \in 1..Len(cells) : cells[i].k = "num")

Perms(n) == {p \in [1..n -> 1..n] : \A i, j \in 1..n : p[i] = p[j] => i = j}

\* DataFrame.sort_values(by=column, ascending=ascending): the orders of the
\* row positions an unstable sort may produce; missing values go last.
SortOrders(t, column, ascending) ==
    IF ~HasColumn(t, column) \/ ~Comparable(t.col[column])
    THEN {[i \in 1..NRows(t) |-> i]}
    ELSE {p \in Perms(NRows(t)) :
            \A i, j \in 1..NRows(t) : i < j =>
                LET a == t.col[column][p[i]]
                    b == t.col[column][p[j]]
                IN  /\ isna(a) => isna(b)
                    /\ (~isna(a) /\ ~isna(b)) =>
                          IF ascending THEN ~CellLess(b, a) ELSE ~CellLess(a, b)}

sort_column_no_reset(t, column, ascending, order) ==
    IF ~HasColumn(t, column) THEN Raise(t, "KeyError")
    ELSE IF ~Comparable(t.col[column]) THEN Raise(t, "TypeError")
    ELSE Return(TakeRows(t, order))

sort_column(t, column, ascending, order) ==
    IF ~HasColumn(t, column) THEN Raise(t, "KeyError")
    ELSE IF ~Comparable(t.col[column]) THEN Raise(t, "TypeError")
    ELSE Return([TakeRows(t, order) EXCEPT !.index = RangeIndex(NRows(t))])

\* str.lower() of the method names the model passes.
Lower(m) ==
    CASE m = "MEAN" -> "mean"
      [] m = "Sum" -> "sum"
      [] OTHER -> m

\* The reductions of one group's cells of one column; missing values are
\* skipped.
Present(cells) == LET NotNa(c) == ~isna(c) IN SelectSeq(cells, NotNa)

RECURSIVE Concat(_)
Concat(cells) ==
    IF cells = <<>> THEN <<>> ELSE Head(cells).s \o Concat(Tail(cells))

Least(cells) ==
    LET v == Present(cells)
    IN  IF v = <<>> THEN NaN
        ELSE v[CHOOSE i \in 1..Len(v) : \A j \in 1..Len(v) : ~CellLess(v[j], v[i])]

Greatest(cells) ==
    LET v == Present(cells)
    IN  IF v = <<>> THEN NaN
        ELSE v[CHOOSE i \in 1..Len(v) : \A j \in 1..Len(v) : ~CellLess(v[i], v[j])]

\* The i-th smallest of the numbers v (i from 1).
Ranked(v, i) ==
    v[CHOOSE a \in 1..Len(v) :
        /\ Cardinality({b \in 1..Len(v) : RatLess(v[b], v[a])}) < i
        /\ Cardinality({b \in 1..Len(v) : ~RatLess(v[a], v[b])}) >= i]

Median(cells) ==
    LET v == Present(cells)
        n == Len(v)
    IN  IF n = 0 THEN NaN
        ELSE IF n % 2 = 1 THEN Ranked(v, (n + 1) \div 2)
        ELSE LET two == RatAdd(Ranked(v, n \div 2), Ranked(v, n \div 2 + 1))
             IN  Rat(two.n, two.d * 2)

Total(cells) ==
    LET v == Present(cells)
    IN  IF v = <<>> THEN Num(0)
        ELSE IF HasStr(v) THEN Str(Concat(v))
        ELSE SumCells(v)

\* Whether the reduction of these cells is defined: the mean or median of a
\* string is not, nor the sum, min or max of strings mixed with numbers.
CanReduce(how, cells) ==
    CASE how \in {"mean", "median"} -> ~HasStr(cells)
      [] how \in {"sum", "min", "max"} -> Comparable(cells)
      [] OTHER -> TRUE

Reduce(how, cells) ==
    CASE how = "mean" -> Mean(cells)
      [] how = "min" -> Least(cells)
      [] how = "max" -> Greatest(cells)
      [] how = "sum" -> Total(cells)
      [] how = "count" -> Num(CountCells(cells))
      [] how = "median" -> Median(cells)

ReducedDtype(how, dt) ==
    IF how = "count" THEN "int64"
    ELSE IF how \in {"mean", "median"} /\ dt = "int64" THEN "float64"
    ELSE dt

\* The key of the row at position i, and whether groupby keeps the row
\* (dropna=True: a row with a missing key belongs to no group).
KeyOf(t, keys, i) == [j \in 1..Len(keys) |-> t.col[keys[j]][i]]

GroupedPositionsKeepNa(t, keys) == [i \in 1..NRows(t) |-> i]

GroupedPositions(t, keys) ==
    LET Keyed(i) == \A j \in 1..Len(keys) : ~isna(t.col[keys[j]][i])
    IN  SelectSeq([i \in 1..NRows(t) |-> i], Keyed)

RECURSIVE KeyLess(_, _)
KeyLess(a, b) ==
    IF a = <<>> \/ b = <<>> THEN FALSE
    ELSE IF Head(a) = Head(b) THEN KeyLess(Tail(a), Tail(b))
    ELSE IF isna(Head(a)) \/ isna(Head(b)) THEN isna(Head(b))
    ELSE CellLess(Head(a), Head(b))

\* The keys of the groups, sorted (sort=True).
RECURSIVE SortKeys(_)
SortKeys(S) ==
    IF S = {} THEN <<>>
    ELSE LET m == CHOOSE x \in S : \A y \in S : ~KeyLess(y, x)
         IN  <<m>> \o SortKeys(S \ {m})

\* self.df.groupby(keys).<how>() followed by reset_index(drop=False).
GroupReduce(t, keys, how) ==
    LET rows   == GroupedPositions(t, keys)
        groups == SortKeys({KeyOf(t, keys, rows[r]) : r \in 1..Len(rows)})
        IsKey(c) == c \in Range(keys)
        IsOther(c) == c \notin Range(keys)
        others == SelectSeq(t.columns, IsOther)
        Members(g) == LET In(i) == KeyOf(t, keys, i) = groups[g]
                      IN  SelectSeq(rows, In)
        Cells(c, g) == [m \in 1..Len(Members(g)) |-> t.col[c][Members(g)[m]]]
    IN  IF \E c \in Range(others), g \in 1..Len(groups) :
              ~CanReduce(how, Cells(c, g))
        THEN Raise(t, "TypeError")
        ELSE Return(Table(
                 keys \o others,
                 [c \in Range(keys) \cup Range(others) |->
                     IF IsKey(c) THEN t.dtype[c] ELSE ReducedDtype(how, t.dtype[c])],
                 RangeIndex(Len(groups)),
                 [c \in Range(keys) \cup Range(others) |->
                     [g \in 1..Len(groups) |->
                         IF IsKey(c)
                         THEN groups[g][CHOOSE j \in 1..Len(keys) : keys[j] = c]
                         ELSE Reduce(how, Cells(c, g))]]))

aggregate_data_strict(t, columns, aggregate_method) ==
    IF \E c \in Range(columns) : ~HasColumn(t, c) THEN Raise(t, "KeyError")
    ELSE IF Lower(aggregate_method) = "mean" THEN GroupReduce(t, columns, "mean")
    ELSE IF Lower(aggregate_method) = "min" THEN GroupReduce(t, columns, "min")
    ELSE IF Lower(aggregate_method) = "max" THEN GroupReduce(t, columns, "max")
    ELSE IF Lower(aggregate_method) = "sum" THEN GroupReduce(t, columns, "sum")
    ELSE IF Lower(aggregate_method) = "count" THEN GroupReduce(t, columns, "count")
    ELSE IF Lower(aggregate_method) = "median" THEN GroupReduce(t, columns, "median")
    ELSE Raise(t, "ValueError")

aggregate_data(t, columns, aggregate_method) ==
    IF \E c \in Range(columns) : ~HasColumn(t, c) THEN Raise(t, "KeyError")
    ELSE IF Lower(aggregate_method) = "mean" THEN GroupReduce(t, columns, "mean")
    ELSE IF Lower(aggregate_method) = "min" THEN GroupReduce(t, columns, "min")
    ELSE IF Lower(aggregate_method) = "max" THEN GroupReduce(t, columns, "max")
    ELSE IF Lower(aggregate_method) = "sum" THEN GroupReduce(t, columns, "sum")
    ELSE IF Lower(aggregate_method) = "count" THEN GroupReduce(t, columns, "count")
    ELSE IF Lower(aggregate_method) = "median" THEN GroupReduce(t, columns, "median")
    ELSE GroupReduce(t, columns, "mean")

\* self.df[self.df[column] == value]: a missing value equals nothing.
EqualPositions(t, column, value) ==
    LET Eq(i) == ~isna(t.col[column][i]) /\ t.col[column][i] = value
    IN  SelectSeq([i \in 1..NRows(t) |-> i], Eq)

filter_by_column_reset(t, column, value) ==
    IF ~HasColumn(t, column) THEN Raise(t, "KeyError")
    ELSE Return([TakeRows(t, EqualPositions(t, column, value))
                    EXCEPT !.index = RangeIndex(Len(EqualPositions(t, column, value)))])

filter_by_column(t, column, value) ==
    IF ~HasColumn(t, column) THEN Raise(t, "KeyError")
    ELSE Return(TakeRows(t, EqualPositions(t, column, value)))

-----------------------------------------------------------------------------
\* The tables pd.read_csv builds (dense index, inferred dtypes), and the
\* arguments the operations are called with.

TableA == Table(<<"G", "x">>,
                [c \in {"G", "x"} |-> IF c = "G" THEN "object" ELSE "int64"],
                RangeIndex(3),
                [c \in {"G", "x"} |->
                    IF c = "G" THEN <<Str(<<"a">>), Str(<<"a">>), Str(<<"b">>)>>
                    ELSE <<Num(1), Num(3), Num(5)>>])

TableB == Table(<<"G", "x", "e">>,
                [c \in {"G", "x", "e"} |-> IF c = "G" THEN "object" ELSE "float64"],
                RangeIndex(3),
                [c \in {"G", "x", "e"} |->
                    IF c = "G" THEN <<Str(<<"b">>), NaN, Str(<<"a">>)>>
                    ELSE IF c = "x" THEN <<NaN, Num(4), Num(1)>>
                    ELSE <<NaN, NaN, NaN>>])

TableC == Table(<<"s", "u">>,
                [c \in {"s", "u"} |-> "object"],
                RangeIndex(3),
                [c \in {"s", "u"} |->
                    IF c = "s"
                    THEN <<Str(<<" ", "a", "b", " ">>), Str(<<"a", "a", "b", "b">>),
                           Str(<<"b", "a">>)>>
                    ELSE <<Str(<<"1", "a">>), Str(<<"2">>), Str(<<"1", "a">>)>>])

\* One text column of one row, for the text-only specification.
Strings(n) == UNION {[1..m -> {"a", "b"}] : m \in 0..n}

TextTable(w) == Table(<<"s">>, [c \in {"s"} |-> "object"], RangeIndex(1),
                      [c \in {"s"} |-> <<Str(w)>>])

\* The column arguments: the table's columns, and a name it does not have.
ColumnArgs == Range(df.columns) \cup {"q"}

\* The column lists: every single name, the first column with the absent
\* name, and the first two columns.
ColumnListArgs ==
    {<<c>> : c \in ColumnArgs}
        \cup (IF Len(df.columns) >= 1 THEN {<<df.columns[1], "q">>} ELSE {})
        \cup (IF Len(df.columns) >= 2
              THEN {<<df.columns[1], df.columns[2]>>} ELSE {})

SomeTexts == {<<"a">>, <<"a", "b">>}

AllTexts == Strings(2) \ {<<>>}

ItemsArgs == {<<Num(1), Num(2), Num(3)>>, <<Str(<<"a">>), NaN>>, <<>>}

ValueArgs == {Num(1), Str(<<"a">>)}

MethodArgs == {"mean", "min", "max", "sum", "count", "median", "MEAN", "Sum", "avg"}

StrategyArgs == {"mean", "zero", "drop", "Mean"}

NoOp == [name |-> "init", column |-> "", text |-> <<>>, regex |-> FALSE,
         strategy |-> "", columns |-> <<>>, decimals |-> 0, items |-> <<>>,
         ascending |-> TRUE, method |-> "", value |-> NaN, io |-> "", err |-> ""]

-----------------------------------------------------------------------------
\* The state machine: one DataCleaner, its operations called one at a time.

Init ==
    /\ df \in {TableA, TableB, TableC}
    /\ stdout = <<>>
    /\ pre = [df |-> df, stdout |-> <<>>]
    /\ op = NoOp
    /\ steps = 0

InitText ==
    /\ df \in {TextTable(w) : w \in Strings(MaxLen)}
    /\ stdout = <<>>
    /\ pre = [df |-> df, stdout |-> <<>>]
    /\ op = NoOp
    /\ steps = 0

\* The call o returned (or raised) r.
Call(o, r) ==
    /\ steps < MaxSteps
    /\ df' = r.df
    /\ stdout' = stdout \o r.out
    /\ pre' = [df |-> df, stdout |-> stdout]
    /\ op' = [o EXCEPT !.err = r.err]
    /\ steps' = steps + 1

RemoveText(texts) ==
    \E column \in ColumnArgs, text \in texts, regex \in BOOLEAN :
        Call([NoOp EXCEPT !.name = "remove_text", !.column = column,
                          !.text = text, !.regex = regex],
             remove_text(df, column, text, regex))

StripSpaces ==
    \E column \in ColumnArgs :
        Call([NoOp EXCEPT !.name = "strip_spaces", !.column = column],
             strip_spaces(df, column))

HandleMissing ==
    \E column \in ColumnArgs, strategy \in StrategyArgs :
        Call([NoOp EXCEPT !.name = "handle_missing", !.column = column,
                          !.strategy = strategy],
             handle_missing(df, column, strategy))

Drop ==
    \E columns \in ColumnListArgs :
        Call([NoOp EXCEPT !.name = "drop", !.columns = columns],
             drop(df, columns))

SaveData ==
    \E io \in {"ok", "OSError"} :
        Call([NoOp EXCEPT !.name = "save_data", !.io = io], save_data(df, io))

ToFloat ==
    \E column \in ColumnArgs :
        Call([NoOp EXCEPT !.name = "to_float", !.column = column],
             to_float(df, column))

Round ==
    \E column \in ColumnArgs, decimals \in {0, 1}, raises \in BOOLEAN :
        Call([NoOp EXCEPT !.name = "round", !.column = column,
                          !.decimals = decimals],
             round(df, column, decimals, raises))

NewColumn ==
    \E column \in {"z", "x"}, items \in ItemsArgs :
        Call([NoOp EXCEPT !.name = "new_column", !.column = column,
                          !.items = items],
             new_column(df, column, items))

SortColumn ==
    \E column \in ColumnArgs, ascending \in BOOLEAN :
        \E order \in SortOrders(df, column, ascending) :
            Call([NoOp EXCEPT !.name = "sort_column", !.column = column,
                              !.ascending = ascending],
                 sort_column(df, column, ascending, order))

AggregateData ==
    \E columns \in ColumnListArgs, method \in MethodArgs :
        Call([NoOp EXCEPT !.name = "aggregate_data", !.columns = columns,
                          !.method = method],
             aggregate_data(df, columns, method))

FilterByColumn ==
    \E column \in ColumnArgs, value \in ValueArgs :
        Call([NoOp EXCEPT !.name = "filter_by_column", !.column = column,
                          !.value = value],
             filter_by_column(df, column, value))

Next ==
    \/ RemoveText(SomeTexts)
    \/ StripSpaces
    \/ HandleMissing
    \/ Drop
    \/ SaveData
    \/ ToFloat
    \/ Round
    \/ NewColumn
    \/ SortColumn
    \/ AggregateData
    \/ FilterByColumn

Spec == Init /\ [][Next]_vars

NextText == RemoveText(AllTexts)

SpecText == InitText /\ [][NextText]_vars

-----------------------------------------------------------------------------
\* What the claims are stated with: the table before the last call is
\* pre.df, its arguments and the exception it raised are in op.

Contains(s, p) ==
    \E i \in 1..(Len(s) - Len(p) + 1) : SubSeq(s, i, i + Len(p) - 1) = p

\* s.split(text): the pieces of s between the occurrences of text that a
\* left-to-right scan finds.
RECURSIVE Pieces(_, _, _)
Pieces(s, text, acc) ==
    IF Len(s) < Len(text) THEN <<acc \o s>>
    ELSE IF SubSeq(s, 1, Len(text)) = text
         THEN <<acc>> \o Pieces(SubSeq(s, Len(text) + 1, Len(s)), text, <<>>)
         ELSE Pieces(Tail(s), text, Append(acc, Head(s)))

RECURSIVE Join(_)
Join(ps) == IF ps = <<>> THEN <<>> ELSE Head(ps) \o Join(Tail(ps))

\* The k-th smallest position of the set K, and K as a sequence.
Nth(K, k) == CHOOSE i \in K : Cardinality({j \in K : j < i}) = k - 1

InOrder(K) == [k \in 1..Cardinality(K) |-> Nth(K, k)]

\* The table holds exactly the rows of pre.df at the positions K, in their
\* order there, under the same columns.
RowsKept(K) ==
    /\ df.columns = pre.df.columns
    /\ df.dtype = pre.df.dtype
    /\ NRows(df) = Cardinality(K)
    /\ \A k \in 1..NRows(df), c \in Range(df.columns) :
          df.col[c][k] = pre.df.col[c][Nth(K, k)]

LabelsKept(K) == \A k \in 1..NRows(df) : df.index[k] = pre.df.index[Nth(K, k)]

DenseIndex == df.index = RangeIndex(NRows(df))

\* Everything but the cells and dtype of column c is as before the call.
OthersUnchanged(c) ==
    /\ df.columns = pre.df.columns
    /\ df.index = pre.df.index
    /\ \A b \in Range(df.columns) \ {c} :
          df.col[b] = pre.df.col[b] /\ df.dtype[b] = pre.df.dtype[b]

-----------------------------------------------------------------------------
\* C1

LiteralRemoval ==
    /\ op.name = "remove_text" /\ ~op.regex /\ op.text # <<>>
    /\ op.err = ""

\* C1 as claimed: after remove_text(C, P) in literal mode no value of C
\* contains P.
C1_NoOccurrenceLeft ==
    LiteralRemoval =>
        \A i \in 1..NRows(df) :
            df.col[op.column][i].k = "str" =>
                ~Contains(df.col[op.column][i].s, op.text)

\* C1 as amended: after remove_text(C, P) in literal mode every text value of
\* C is its value before with the occurrences of P that a left-to-right scan
\* finds deleted, that is the pieces between them joined; no piece contains
\* P, so P occurs afterwards only across a joint.
C1_OccurrencesDeleted ==
    LiteralRemoval =>
        /\ OthersUnchanged(op.column)
        /\ \A i \in 1..NRows(df) :
              LET before == pre.df.col[op.column][i]
                  after  == df.col[op.column][i]
                  pieces == Pieces(before.s, op.text, <<>>)
              IN  before.k = "str" =>
                      /\ after = Str(Join(pieces))
                      /\ \A j \in 1..Len(pieces) : ~Contains(pieces[j], op.text)

\* A deletion that joined the surrounding characters into a new occurrence.
C1_Witness ==
    /\ LiteralRemoval
    /\ \E i \in 1..NRows(df) :
          /\ pre.df.col[op.column][i].k = "str"
          /\ df.col[op.column][i] # pre.df.col[op.column][i]
          /\ Contains(df.col[op.column][i].s, op.text)

-----------------------------------------------------------------------------
\* C2

DropCall ==
    /\ op.name = "handle_missing" /\ op.strategy = "drop"
    /\ HasColumn(pre.df, op.column)

PresentRows == {i \in 1..NRows(pre.df) : ~isna(pre.df.col[op.column][i])}

-----------------------------------------------------------------------------
\* C3

\* The failures the claim lists, as conditions on the table before the call.
ListedFailure ==
    LET t == pre.df
        c == op.column
    IN  \/ /\ op.name \in {"remove_text", "strip_spaces"}
           /\ HasColumn(t, c) /\ t.dtype[c] # "object"
        \/ /\ op.name = "handle_missing" /\ op.strategy = "mean"
           /\ HasColumn(t, c) /\ HasStr(t.col[c])
        \/ /\ op.name = "drop"
           /\ \E b \in Range(op.columns) : ~HasColumn(t, b)
        \/ /\ op.name = "to_float" /\ HasColumn(t, c)
           /\ \E i \in 1..NRows(t) : ~Parsable(t.col[c][i])
        \/ /\ op.name = "new_column"
           /\ NRows(t) # 0 /\ Len(op.items) # NRows(t)
        \/ /\ op.name \in {"sort_column", "filter_by_column"}
           /\ ~HasColumn(t, c)
        \/ /\ op.name = "aggregate_data"
           /\ \E b \in Range(op.columns) : ~HasColumn(t, b)

-----------------------------------------------------------------------------
\* C4

\* C4 as claimed: new_column(name, values) succeeds exactly when len(values)
\* is the row count; then the column holds the values, the other columns and
\* the rows are unchanged; otherwise it fails with a length mismatch and
\* changes nothing.
C4_LengthDecides ==
    op.name = "new_column" =>
        IF Len(op.items) = NRows(pre.df)
        THEN /\ op.err = ""
             /\ df.col[op.column] = op.items
             /\ df.index = pre.df.index
             /\ df.columns = IF HasColumn(pre.df, op.column) THEN pre.df.columns
                             ELSE Append(pre.df.columns, op.column)
             /\ \A b \in Range(pre.df.columns) \ {op.column} :
                   df.col[b] = pre.df.col[b] /\ df.dtype[b] = pre.df.dtype[b]
        ELSE op.err = "ValueError" /\ df = pre.df

-----------------------------------------------------------------------------
\* C5

MeanCall ==
    /\ op.name = "handle_missing" /\ op.strategy = "mean"
    /\ HasColumn(pre.df, op.column)
    /\ pre.df.dtype[op.column] \in {"float64", "int64"}
    /\ \E i \in 1..NRows(pre.df) : isna(pre.df.col[op.column][i])

\* v is the mean of the values of cells that are not missing.
IsMeanOf(v, cells) ==
    /\ CountCells(cells) > 0
    /\ v.k = "num"
    /\ v.n * (SumCells(cells).d * CountCells(cells)) = SumCells(cells).n * v.d

MeanFilled ==
    /\ OthersUnchanged(op.column)
    /\ df.dtype[op.column] = pre.df.dtype[op.column]
    /\ \A i \in 1..NRows(df) :
          LET before == pre.df.col[op.column][i]
              after  == df.col[op.column][i]
          IN  /\ ~isna(after)
              /\ isna(before) => IsMeanOf(after, pre.df.col[op.column])
              /\ ~isna(before) => after = before

\* C5 as claimed: handle_missing(C, "mean") on a numeric column with a missing
\* value leaves none missing, each filled with the mean of the values present
\* before, the others and the row count unchanged, also when every value is
\* missing.
C5_MeanFillsEveryColumn ==
    MeanCall => op.err = "" /\ MeanFilled

\* C5 as amended: the same, provided at least one value of C is present; when
\* every value of C is missing the mean is itself missing and the call leaves
\* the table as it was, every value of C still missing.
C5_MeanFillsWhenDefined ==
    MeanCall =>
        /\ op.err = ""
        /\ IF PresentRows # {} THEN MeanFilled ELSE df = pre.df

\* A fill with the mean of the values that were present.
C5_Witness ==
    /\ MeanCall /\ op.err = ""
    /\ PresentRows # {}
    /\ df # pre.df

-----------------------------------------------------------------------------
\* C6

SortCall == op.name = "sort_column" /\ HasColumn(pre.df, op.column)

Sorted ==
    /\ df.columns = pre.df.columns
    /\ df.dtype = pre.df.dtype
    /\ NRows(df) = NRows(pre.df)
    /\ DenseIndex
    /\ \E p \in Perms(NRows(df)) :
          \A c \in Range(df.columns), i \in 1..NRows(df) :
              df.col[c][i] = pre.df.col[c][p[i]]
    /\ \A i, j \in 1..NRows(df) :
          LET a == df.col[op.column][i]
              b == df.col[op.column][j]
          IN  (i < j /\ ~isna(a) /\ ~isna(b)) =>
                  IF op.ascending THEN ~CellLess(b, a) ELSE ~CellLess(a, b)

\* C6 as claimed: for every existing column C, sort leaves a permutation of
\* the rows whose C values are non-decreasing (ascending) or non-increasing
\* (descending), the same row count and dense row indices.
C6_SortOrdersEveryColumn ==
    SortCall => op.err = "" /\ Sorted

\* C6 as amended: the same for every existing column whose values present
\* are all numbers or all strings; on a column that mixes strings and numbers
\* sort raises TypeError and leaves the table as it was.
C6_SortOrdersComparable ==
    SortCall =>
        IF Comparable(pre.df.col[op.column])
        THEN op.err = "" /\ Sorted
        ELSE op.err = "TypeError" /\ df = pre.df

\* A descending sort of a column with a missing value that moved rows.
C6_Witness ==
    /\ SortCall /\ op.err = "" /\ ~op.ascending
    /\ \E i \in 1..NRows(pre.df) : isna(pre.df.col[op.column][i])
    /\ df.col # pre.df.col

-----------------------------------------------------------------------------
\* C7

FilterCall == op.name = "filter_by_column" /\ HasColumn(pre.df, op.column)

EqualRows ==
    {i \in 1..NRows(pre.df) :
        ~isna(pre.df.col[op.column][i]) /\ pre.df.col[op.column][i] = op.value}

\* C7: filter(C, v) leaves exactly the rows whose C value equals v, in their
\* order, each with the row index it had before; the columns are unchanged
\* and no row whose C value is missing is kept.
C7_FilterKeepsEqualRows ==
    FilterCall =>
        /\ op.err = ""
        /\ RowsKept(EqualRows)
        /\ LabelsKept(EqualRows)
        /\ \A k \in 1..NRows(df) : ~isna(df.col[op.column][k])

\* A filter of a column with a missing value that left row indices not dense.
C7_Witness ==
    /\ FilterCall /\ op.err = ""
    /\ \E i \in 1..NRows(pre.df) : isna(pre.df.col[op.column][i])
    /\ NRows(df) > 0
    /\ ~DenseIndex

-----------------------------------------------------------------------------
\* C8

Recognized == {"mean", "min", "max", "sum", "count", "median"}

AggregateCall ==
    /\ op.name = "aggregate_data"
    /\ \A b \in Range(op.columns) : HasColumn(pre.df, b)
    /\ Lower(op.method) \in Recognized
    /\ op.err = ""

KeyBefore(i) == [j \in 1..Len(op.columns) |-> pre.df.col[op.columns[j]][i]]

KeyAfter(g) == [j \in 1..Len(op.columns) |-> df.col[op.columns[j]][g]]

KeyedRows ==
    {i \in 1..NRows(pre.df) : \A j \in 1..Len(op.columns) : ~isna(KeyBefore(i)[j])}

\* The table is the grouping of the rows of pre.df at the positions rows: one
\* row per distinct key, the group columns first, every other column reduced
\* over the rows of the group, dense row indices.
GroupedOver(rows) ==
    LET IsOther(c) == c \notin Range(op.columns)
        others == SelectSeq(pre.df.columns, IsOther)
        Group(g) == {i \in rows : KeyBefore(i) = KeyAfter(g)}
    IN  /\ df.columns = op.columns \o others
        /\ DenseIndex
        /\ NRows(df) = Cardinality({KeyBefore(i) : i \in rows})
        /\ \A i \in rows : \E g \in 1..NRows(df) : KeyAfter(g) = KeyBefore(i)
        /\ \A g \in 1..NRows(df), c \in Range(others) :
              df.col[c][g] =
                  Reduce(Lower(op.method),
                         [m \in 1..Cardinality(Group(g)) |->
                             pre.df.col[c][InOrder(Group(g))[m]]])

\* C8 as claimed: aggregate partitions all the rows by their group-column
\* values, rows whose group-column value is missing included, and leaves one
\* row per group.
C8_EveryRowGrouped ==
    AggregateCall => GroupedOver(1..NRows(pre.df))

\* C8 as amended: aggregate, when it returns, has partitioned the rows whose
\* group-column values are all present (a row with a missing one belongs to
\* no group and is dropped) and leaves one row per group: the group columns,
\* then every other column reduced over the group's rows, dense row indices;
\* the example of the claim yields {G=a,x=4},{G=b,x=5}.
C8_KeyedRowsGrouped ==
    /\ AggregateCall => GroupedOver(KeyedRows)
    /\ (/\ op.name = "aggregate_data" /\ pre.df = TableA
        /\ op.columns = <<"G">> /\ op.method = "sum") =>
           /\ op.err = ""
           /\ df.col["G"] = <<Str(<<"a">>), Str(<<"b">>)>>
           /\ df.col["x"] = <<Num(4), Num(5)>>
           /\ NRows(df) = 2

\* An aggregation that dropped a row whose group-column value is missing.
C8_Witness ==
    /\ AggregateCall
    /\ KeyedRows # 1..NRows(pre.df)
    /\ NRows(df) > 1

-----------------------------------------------------------------------------
\* C9

\* C9: save never raises: whether the write succeeds or fails, the call
\* returns after printing exactly one message, the success or the error
\* message, and the table is unchanged.
C9_SaveNeverRaises ==
    op.name = "save_data" =>
        /\ op.err = ""
        /\ df = pre.df
        /\ Len(stdout) = Len(pre.stdout) + 1
        /\ SubSeq(stdout, 1, Len(pre.stdout)) = pre.stdout
        /\ stdout[Len(stdout)] = IF op.io = "ok" THEN "Data successfully saved"
                                 ELSE "Error saving file"

\* A save whose write failed.
C9_Witness == op.name = "save_data" /\ op.io = "OSError" /\ NRows(df) > 0

-----------------------------------------------------------------------------
\* C10

\* C10: handle_missing with a strategy other than "mean", "zero" and "drop"
\* raises nothing and leaves the table unchanged (whether or not the column
\* exists), and aggregate with a method that is none of the six, whatever its
\* case, ends as aggregate with "mean" does from the same table.
C10_UnknownKeywords ==
    /\ (op.name = "handle_missing" /\ op.strategy \notin {"mean", "zero", "drop"}) =>
           op.err = "" /\ df = pre.df /\ stdout = pre.stdout
    /\ (op.name = "aggregate_data" /\ Lower(op.method) \notin Recognized) =>
           /\ df = aggregate_data(pre.df, op.columns, "mean").df
           /\ op.err = aggregate_data(pre.df, op.columns, "mean").err

\* An aggregation under an unknown method that grouped the table.
C10_Witness ==
    /\ op.name = "aggregate_data" /\ Lower(op.method) \notin Recognized
    /\ op.err = ""
    /\ df # pre.df

====
